---- MODULE Spec2Model ----
(***************************************************************************)
(* Model of recipe-converter.js (src/unnamed/part_001): the RecipeConverter *)
(* class, its text and time helpers, the image download state machine and   *)
(* the batch conversion methods driven by the CLI.                          *)
(*                                                                          *)
(* JavaScript strings are sequences of one-character strings, so that every *)
(* conversion (casing, decimal formatting, regular expressions, base64,     *)
(* JSON escaping) is computed character by character.                       *)
(***************************************************************************)
EXTENDS Integers, Sequences, FiniteSets, TLC

(***************************************************************************)
(* Bounds of the model.                                                     *)
(***************************************************************************)
\* largest minute count handed to formatMinutesToHM by a direct call
MaxMinutes == 200
\* largest number of bytes a response body carries
MaxBody == 2
\* largest number of files in one recipes directory
MaxFiles == 2
\* largest number of entries of an image list handed to
\* convertImagesToBase64 by a direct call
MaxImages == 2

(***************************************************************************)
(* Characters and strings.                                                  *)
(***************************************************************************)
Lowers == << "a", "b", "c", "d", "e", "f", "g", "h", "i", "j", "k", "l", "m",
             "n", "o", "p", "q", "r", "s", "t", "u", "v", "w", "x", "y", "z" >>

Uppers == << "A", "B", "C", "D", "E", "F", "G", "H", "I", "J", "K", "L", "M",
             "N", "O", "P", "Q", "R", "S", "T", "U", "V", "W", "X", "Y", "Z" >>

DigitChars == << "0", "1", "2", "3", "4", "5", "6", "7", "8", "9" >>

Range(f) == { f[i] : i \in DOMAIN f }

IsLower(c) == c \in Range(Lowers)

IsUpper(c) == c \in Range(Uppers)

IsDigit(c) == c \in Range(DigitChars)

IsAlnum(c) == IsLower(c) \/ IsUpper(c) \/ IsDigit(c)

\* the characters the regular expression class \s and String.trim treat as
\* white space, as far as the model's alphabet has them
IsSpace(c) == c \in { " ", "\n", "\t" }

IndexIn(c, f) == CHOOSE i \in DOMAIN f : f[i] = c

charToUpperCase(c) == IF IsLower(c) THEN Uppers[IndexIn(c, Lowers)] ELSE c

charToLowerCase(c) == IF IsUpper(c) THEN Lowers[IndexIn(c, Uppers)] ELSE c

toUpperCase(s) == [ i \in DOMAIN s |-> charToUpperCase(s[i]) ]

toLowerCase(s) == [ i \in DOMAIN s |-> charToLowerCase(s[i]) ]

\* String.prototype.slice(from) with a 0-based start
slice(s, from) == SubSeq(s, from + 1, Len(s))

startsWith(s, p) == Len(s) >= Len(p) /\ SubSeq(s, 1, Len(p)) = p

endsWith(s, p) == Len(s) >= Len(p) /\ SubSeq(s, Len(s) - Len(p) + 1, Len(s)) = p

RECURSIVE Concat(_)
Concat(ss) == IF ss = << >> THEN << >> ELSE Head(ss) \o Concat(Tail(ss))

\* Array.prototype.join on an array of strings
RECURSIVE join(_, _)
join(ss, sep) ==
    IF ss = << >> THEN << >>
    ELSE IF Len(ss) = 1 THEN ss[1]
    ELSE ss[1] \o sep \o join(Tail(ss), sep)

\* String.prototype.split on a one-character separator
RECURSIVE split(_, _)
split(s, sep) ==
    IF \A i \in DOMAIN s : s[i] # sep THEN << s >>
    ELSE LET i == CHOOSE k \in DOMAIN s :
                      s[k] = sep /\ \A j \in 1 .. k - 1 : s[j] # sep
         IN  << SubSeq(s, 1, i - 1) >> \o split(SubSeq(s, i + 1, Len(s)), sep)

RECURSIVE trimStart(_)
trimStart(s) == IF s # << >> /\ IsSpace(Head(s)) THEN trimStart(Tail(s)) ELSE s

RECURSIVE trimEnd(_)
trimEnd(s) ==
    IF s # << >> /\ IsSpace(s[Len(s)]) THEN trimEnd(SubSeq(s, 1, Len(s) - 1)) ELSE s

trim(s) == trimEnd(trimStart(s))

\* decimal rendering of a natural number, as template literals render it
RECURSIVE ToStr(_)
ToStr(n) ==
    IF n < 10 THEN << DigitChars[n + 1] >>
    ELSE ToStr(n \div 10) \o << DigitChars[(n % 10) + 1] >>

\* parseInt on a non-empty run of decimal digits
RECURSIVE parseInt(_)
parseInt(ds) ==
    IF ds = << >> THEN 0
    ELSE parseInt(SubSeq(ds, 1, Len(ds) - 1)) * 10 + (IndexIn(ds[Len(ds)], DigitChars) - 1)

InClass(c, class) ==
    CASE class = "digit" -> IsDigit(c)
      [] class = "space" -> IsSpace(c)
      [] class = "subtype" -> IsAlnum(c) \/ c \in { ".", "+", "-" }

\* end (inclusive) of the longest run of characters of a class that starts at
\* position i; i - 1 when the run is empty
RECURSIVE RunEnd(_, _, _)
RunEnd(s, i, class) ==
    IF i <= Len(s) /\ InClass(s[i], class) THEN RunEnd(s, i + 1, class) ELSE i - 1

(***************************************************************************)
(* JavaScript values.                                                       *)
(***************************************************************************)
Undef == [ t |-> "undefined" ]

Null == [ t |-> "null" ]

Str(s) == [ t |-> "string", s |-> s ]

Num(n) == [ t |-> "number", n |-> n, d |-> 1 ]

\* the number n / d
Frac(n, d) == [ t |-> "number", n |-> n, d |-> d ]

Bool(b) == [ t |-> "boolean", b |-> b ]

\* an array; l is the sequence of its elements
Arr(l) == [ t |-> "array", l |-> l ]

\* a plain object; o is a record of its own properties
Obj(o) == [ t |-> "object", o |-> o ]

IsStr(v) == v.t = "string"

\* typeof v
typeof(v) ==
    CASE v.t = "undefined" -> "undefined"
      [] v.t = "string" -> "string"
      [] v.t = "number" -> "number"
      [] v.t = "boolean" -> "boolean"
      [] OTHER -> "object"

\* ToBoolean(v)
Truthy(v) ==
    CASE v.t = "undefined" -> FALSE
      [] v.t = "null" -> FALSE
      [] v.t = "string" -> v.s # << >>
      [] v.t = "number" -> v.n # 0
      [] v.t = "boolean" -> v.b
      [] OTHER -> TRUE

\* a || b
Or(a, b) == IF Truthy(a) THEN a ELSE b

\* reading v.key throws a TypeError
GetThrows(v) == v.t \in { "undefined", "null" }

\* v.key, for a v on which the read does not throw
Get(v, key) ==
    IF v.t = "object" /\ key \in DOMAIN v.o THEN v.o[key] ELSE Undef

\* String(v) as Array.prototype.join and template literals apply it to the
\* elements the model uses (join renders null and undefined as "")
RECURSIVE ToJSString(_)
ToJSString(v) ==
    CASE v.t = "string" -> v.s
      [] v.t = "number" -> ToStr(v.n)
      [] v.t = "boolean" -> IF v.b THEN << "t", "r", "u", "e" >>
                                   ELSE << "f", "a", "l", "s", "e" >>
      [] v.t = "array" ->
           join([ i \in DOMAIN v.l |->
                    IF v.l[i].t \in { "undefined", "null" } THEN << >>
                    ELSE ToJSString(v.l[i]) ], << "," >>)
      [] v.t = "object" ->
           << "[", "o", "b", "j", "e", "c", "t", " ", "O", "b", "j", "e", "c", "t", "]" >>
      [] OTHER -> << >>

\* arr.join(sep) on an array of arbitrary values
joinValues(l, sep) ==
    join([ i \in DOMAIN l |->
             IF l[i].t \in { "undefined", "null" } THEN << >> ELSE ToJSString(l[i]) ],
         sep)

(***************************************************************************)
(* Text and time helpers (module level functions and helper methods).       *)
(***************************************************************************)
\* a call that throws inside a try block is represented by this result
Thrown == [ t |-> "thrown" ]

\* toProperCase(str): str.charAt is not a function when str is a truthy
\* value that is no string
toProperCase(str) ==
    IF ~Truthy(str) THEN Str(<< >>)
    ELSE IF ~IsStr(str) THEN Thrown
    ELSE Str(toUpperCase(SubSeq(str.s, 1, 1)) \o toLowerCase(slice(str.s, 1)))

\* formatMinutesToHM with the hour boundary off by one
formatMinutesToHM_Boundary(minutes) ==
    IF minutes = 0 THEN << >>
    ELSE IF minutes <= 60 THEN ToStr(minutes) \o << "m" >>
    ELSE LET h == minutes \div 60
             m == minutes % 60
         IN  IF m = 0 THEN ToStr(h) \o << "h" >>
             ELSE ToStr(h) \o << "h", " " >> \o ToStr(m) \o << "m" >>

\* formatMinutesToHM(minutes) for the numbers its callers pass: non-negative
\* integers
formatMinutesToHM(minutes) ==
    IF minutes = 0 THEN << >>
    ELSE IF minutes < 60 THEN ToStr(minutes) \o << "m" >>
    ELSE LET h == minutes \div 60
             m == minutes % 60
         IN  IF m = 0 THEN ToStr(h) \o << "h" >>
             ELSE ToStr(h) \o << "h", " " >> \o ToStr(m) \o << "m" >>

MinuteWord == << "m", "i", "n", "u", "t", "e" >>

\* the regular expression /(\d+)\s*minutes?/i matches s with its digits
\* starting at position i
MinutesMatchAt(s, i) ==
    /\ i \in DOMAIN s
    /\ IsDigit(s[i])
    /\ LET j == RunEnd(s, i, "digit")
           k == RunEnd(s, j + 1, "space")
       IN  /\ k + Len(MinuteWord) <= Len(s)
           /\ toLowerCase(SubSeq(s, k + 1, k + Len(MinuteWord))) = MinuteWord

\* parseTimeToMinutes(timeStr) throws: timeStr.match is not a function
parseTimeToMinutesThrows(timeStr) == Truthy(timeStr) /\ ~IsStr(timeStr)

\* parseTimeToMinutes(timeStr), where it does not throw
parseTimeToMinutes(timeStr) ==
    IF ~Truthy(timeStr) THEN 0
    ELSE IF \E i \in DOMAIN timeStr.s : MinutesMatchAt(timeStr.s, i)
         THEN LET i == CHOOSE k \in DOMAIN timeStr.s :
                           /\ MinutesMatchAt(timeStr.s, k)
                           /\ \A j \in 1 .. k - 1 : ~MinutesMatchAt(timeStr.s, j)
              IN  parseInt(SubSeq(timeStr.s, i, RunEnd(timeStr.s, i, "digit")))
         ELSE 0

\* the regular expression /\((\d+)\)/ matches s with "(" at position i
DateMatchAt(s, i) ==
    /\ i \in DOMAIN s
    /\ s[i] = "("
    /\ LET j == RunEnd(s, i + 1, "digit")
       IN  j >= i + 1 /\ j + 1 <= Len(s) /\ s[j + 1] = ")"

parseYMLDateThrows(dateStr) == Truthy(dateStr) /\ ~IsStr(dateStr)

\* parseYMLDate(dateStr): the digits in parentheses, as milliseconds, divided
\* by 1000; null without a match
parseYMLDate(dateStr) ==
    IF ~Truthy(dateStr) THEN Null
    ELSE IF \E i \in DOMAIN dateStr.s : DateMatchAt(dateStr.s, i)
         THEN LET i == CHOOSE k \in DOMAIN dateStr.s :
                           /\ DateMatchAt(dateStr.s, k)
                           /\ \A j \in 1 .. k - 1 : ~DateMatchAt(dateStr.s, j)
              IN  Frac(parseInt(SubSeq(dateStr.s, i + 1,
                                       RunEnd(dateStr.s, i + 1, "digit"))), 1000)
         ELSE Null

\* lines of s that are not blank: s.split("\n").filter(line => line.trim())
NonBlankLines(s) == SelectSeq(split(s, "\n"), LAMBDA line : trim(line) # << >>)

\* parseYMLTags(tags)
parseYMLTags(tags) ==
    IF ~Truthy(tags) THEN Arr(<< >>)
    ELSE IF IsStr(tags)
         THEN LET kept == NonBlankLines(tags.s)
              IN  Arr([ i \in DOMAIN kept |-> Str(trim(kept[i])) ])
         ELSE Arr(<< >>)

\* formatYMLIngredients(ingredients)
formatYMLIngredients(ingredients) ==
    IF ~Truthy(ingredients) THEN Str(<< >>)
    ELSE IF IsStr(ingredients)
         THEN Str(join(NonBlankLines(ingredients.s), << "\n" >>))
         ELSE Str(<< >>)

\* formatYMLDirections(directions)
formatYMLDirections(directions) ==
    IF ~Truthy(directions) THEN Str(<< >>)
    ELSE IF IsStr(directions)
         THEN Str(join(NonBlankLines(directions.s), << "\n", "\n" >>))
         ELSE Str(<< >>)

\* formatDuration(duration) throws: duration.startsWith is not a function
formatDurationThrows(duration) == ~IsStr(duration)

\* formatDuration(duration) on a string: /PT(?:(\d+)H)?(?:(\d+)M)?/ applied to
\* a string that starts with PT
formatDuration(duration) ==
    IF ~startsWith(duration.s, << "P", "T" >>) THEN duration
    ELSE LET s == duration.s
             hEnd == RunEnd(s, 3, "digit")
             hasH == hEnd >= 3 /\ hEnd + 1 <= Len(s) /\ s[hEnd + 1] = "H"
             mStart == IF hasH THEN hEnd + 2 ELSE 3
             mEnd == RunEnd(s, mStart, "digit")
             hasM == mEnd >= mStart /\ mEnd + 1 <= Len(s) /\ s[mEnd + 1] = "M"
             hours == IF hasH THEN parseInt(SubSeq(s, 3, hEnd)) ELSE 0
             minutes == IF hasM THEN parseInt(SubSeq(s, mStart, mEnd)) ELSE 0
         IN  IF hours # 0 /\ minutes # 0
               THEN Str(ToStr(hours) \o << "h", " " >> \o ToStr(minutes) \o << "m" >>)
             ELSE IF hours # 0 THEN Str(ToStr(hours) \o << "h" >>)
             ELSE IF minutes # 0 THEN Str(ToStr(minutes) \o << "m" >>)
             ELSE duration

\* path.extname(name) of a file name without directories
extname(name) ==
    IF \E i \in 2 .. Len(name) : name[i] = "."
    THEN LET i == CHOOSE k \in 2 .. Len(name) :
                      name[k] = "." /\ \A j \in k + 1 .. Len(name) : name[j] # "."
         IN  SubSeq(name, i, Len(name))
    ELSE << >>

\* path.basename(name, ext)
basename(name, ext) ==
    IF ext # << >> /\ name = ext THEN << >>
    ELSE IF ext # << >> /\ endsWith(name, ext)
         THEN SubSeq(name, 1, Len(name) - Len(ext))
         ELSE name

\* generateId taking the extension for the stem
generateId_Extension(name, uuid) == Str(extname(name))

\* generateId(filePath); uuid is the value uuidv4() would return
generateId(name, uuid) ==
    LET stem == basename(name, extname(name))
    IN  IF stem # << >> THEN Str(stem) ELSE Str(uuid)

(***************************************************************************)
(* Structured-markup extraction (helper methods for HTML parsing).          *)
(* sd is the parsed JSON-LD value (Null when there is none or it does not   *)
(* parse); doc is the parsed document: for each selector the code queries,  *)
(* the textContent of the first matching element (Undef when no element     *)
(* matches) or the list of the matching elements.                           *)
(***************************************************************************)
\* structuredData && structuredData.key
SdHas(sd, key) == Truthy(sd) /\ Truthy(Get(sd, key))

\* element ? element.textContent.trim() : ""
ElementText(el) == IF el = Undef THEN Str(<< >>) ELSE Str(trim(el.s))

extractTitle(sd, doc) ==
    IF SdHas(sd, "name") THEN Get(sd, "name") ELSE ElementText(doc.name)

extractDescription(sd, doc) ==
    IF SdHas(sd, "description") THEN Get(sd, "description")
    ELSE ElementText(doc.description)

\* the forEach over the img elements: src || content, pushed when it is
\* truthy and not yet included
RECURSIVE AddImgElements(_, _)
AddImgElements(images, els) ==
    IF els = << >> THEN images
    ELSE LET src == Or(Head(els).src, Head(els).content)
         IN  IF Truthy(src) /\ src \notin Range(images)
             THEN AddImgElements(Append(images, src), Tail(els))
             ELSE AddImgElements(images, Tail(els))

extractImages(sd, doc) ==
    LET fromSd == IF SdHas(sd, "image")
                  THEN IF Get(sd, "image").t = "array" THEN Get(sd, "image").l
                       ELSE << Get(sd, "image") >>
                  ELSE << >>
    IN  Arr(AddImgElements(fromSd, doc.images))

\* structuredData.keywords.split is not a function
extractCategoriesThrows(sd, doc) ==
    Truthy(sd) /\ Truthy(Get(sd, "keywords")) /\ ~IsStr(Get(sd, "keywords"))

extractCategories(sd, doc) ==
    LET cats == IF SdHas(sd, "recipeCategory")
                THEN IF Get(sd, "recipeCategory").t = "array"
                     THEN Get(sd, "recipeCategory").l
                     ELSE << Get(sd, "recipeCategory") >>
                ELSE << >>
        words == IF SdHas(sd, "keywords")
                 THEN split(Get(sd, "keywords").s, ",")
                 ELSE << >>
    IN  Arr(cats \o [ i \in DOMAIN words |-> Str(trim(words[i])) ])

extractYield(sd, doc) ==
    IF SdHas(sd, "recipeYield")
    THEN IF Get(sd, "recipeYield").t = "array"
         THEN Str(joinValues(Get(sd, "recipeYield").l, << ",", " " >>))
         ELSE Get(sd, "recipeYield")
    ELSE ElementText(doc.recipeYield)

extractPrepTimeThrows(sd, doc) ==
    SdHas(sd, "prepTime") /\ formatDurationThrows(Get(sd, "prepTime"))

extractPrepTime(sd, doc) ==
    IF SdHas(sd, "prepTime") THEN formatDuration(Get(sd, "prepTime"))
    ELSE ElementText(doc.prepTime)

extractCookTimeThrows(sd, doc) ==
    SdHas(sd, "cookTime") /\ formatDurationThrows(Get(sd, "cookTime"))

extractCookTime(sd, doc) ==
    IF SdHas(sd, "cookTime") THEN formatDuration(Get(sd, "cookTime"))
    ELSE ElementText(doc.cookTime)

extractIngredients(sd, doc) ==
    IF SdHas(sd, "recipeIngredient")
    THEN LET v == Get(sd, "recipeIngredient")
         IN  Str(joinValues(IF v.t = "array" THEN v.l ELSE << v >>, << "\n" >>))
    ELSE Str(join([ i \in DOMAIN doc.ingredients |-> trim(doc.ingredients[i].s) ],
                  << "\n" >>))

\* the elements of the recipeInstructions array, or the scalar as singleton
InstructionList(sd) ==
    LET v == Get(sd, "recipeInstructions")
    IN  IF v.t = "array" THEN v.l ELSE << v >>

\* typeof null is "object", so instruction.text throws on a null entry
extractInstructionsThrows(sd, doc) ==
    /\ SdHas(sd, "recipeInstructions")
    /\ \E i \in DOMAIN InstructionList(sd) :
           InstructionList(sd)[i].t \in { "null", "undefined" }

extractInstructions(sd, doc) ==
    IF SdHas(sd, "recipeInstructions")
    THEN LET l == InstructionList(sd)
             mapped == [ i \in DOMAIN l |->
                           IF typeof(l[i]) = "object" /\ Truthy(Get(l[i], "text"))
                           THEN Get(l[i], "text")
                           ELSE Str(ToJSString(l[i])) ]
         IN  Str(joinValues(mapped, << "\n", "\n" >>))
    ELSE Str(join([ i \in DOMAIN doc.instructions |-> trim(doc.instructions[i].s) ],
                  << "\n", "\n" >>))

extractNotes(sd, doc) ==
    IF SdHas(sd, "notes") THEN Get(sd, "notes") ELSE Str(<< >>)

extractNutrition(sd, doc) ==
    IF SdHas(sd, "nutrition") THEN Get(sd, "nutrition")
    ELSE ElementText(doc.nutrition)

extractSource(sd, doc) ==
    IF SdHas(sd, "author") /\ typeof(Get(sd, "author")) = "object"
       /\ Truthy(Get(Get(sd, "author"), "url"))
    THEN Get(Get(sd, "author"), "url")
    ELSE IF SdHas(sd, "author") /\ typeof(Get(sd, "author")) = "string"
         THEN Get(sd, "author")
         ELSE ElementText(doc.author)

(***************************************************************************)
(* The two parsers.  A file is what the file system and the parsing         *)
(* libraries give for it:                                                   *)
(*   HTML: [name, readable, jsonld \in {"none", "invalid", "valid"}, sd,    *)
(*          doc]   (sd: the value JSON.parse returns for the JSON-LD block) *)
(*   YML:  [name, readable, parses, data]   (data: what yaml.parse returns) *)
(***************************************************************************)
\* structuredData as parseHTMLRecipe has it after the JSON-LD block
StructuredData(file) == IF file.jsonld = "valid" THEN file.sd ELSE Null

\* the synchronous part of parseHTMLRecipe throws into its catch block
parseHTMLRecipeThrows(file) ==
    LET sd == StructuredData(file)
        doc == file.doc
    IN  \/ ~file.readable
        \/ extractPrepTimeThrows(sd, doc)
        \/ extractCookTimeThrows(sd, doc)
        \/ toProperCase(extractTitle(sd, doc)) = Thrown
        \/ extractCategoriesThrows(sd, doc)
        \/ extractInstructionsThrows(sd, doc)

\* the recipe object literal of parseHTMLRecipe, before the images are
\* converted; now is Date.now() in milliseconds
HTMLRecipe(file, now, uuid) ==
    LET sd == StructuredData(file)
        doc == file.doc
        prepMins == parseTimeToMinutes(extractPrepTime(sd, doc))
        cookMins == parseTimeToMinutes(extractCookTime(sd, doc))
        otherMins == 0
        totalMins == prepMins + cookMins + otherMins
    IN  [ id |-> generateId(file.name, uuid),
          title |-> toProperCase(extractTitle(sd, doc)),
          text |-> extractDescription(sd, doc),
          images |-> extractImages(sd, doc),
          categories |-> extractCategories(sd, doc),
          yield |-> extractYield(sd, doc),
          prepTime |-> Str(formatMinutesToHM(prepMins)),
          cookTime |-> Str(formatMinutesToHM(cookMins)),
          totalTime |-> Str(formatMinutesToHM(totalMins)),
          ingredients |-> extractIngredients(sd, doc),
          instructions |-> extractInstructions(sd, doc),
          notes |-> extractNotes(sd, doc),
          nutrition |-> extractNutrition(sd, doc),
          link |-> extractSource(sd, doc),
          favorite |-> Bool(FALSE),
          wantToCook |-> Bool(FALSE),
          date |-> Frac(now, 1000) ]

\* parseYMLRecipe throws into its catch block
parseYMLRecipeThrows(file) ==
    \/ ~file.readable
    \/ ~file.parses
    \/ GetThrows(file.data)
    \/ parseTimeToMinutesThrows(Get(file.data, "prep_time"))
    \/ parseTimeToMinutesThrows(Get(file.data, "cook_time"))
    \/ parseTimeToMinutesThrows(Get(file.data, "other_time"))
    \/ toProperCase(Or(Get(file.data, "name"), Str(<< >>))) = Thrown
    \/ parseYMLDateThrows(Get(file.data, "created"))

\* parseYMLRecipe(filePath): the recipe, or null after a caught error
parseYMLRecipe(file, now, uuid) ==
    IF parseYMLRecipeThrows(file) THEN Null
    ELSE
    LET data == file.data
        prepMins == parseTimeToMinutes(Get(data, "prep_time"))
        cookMins == parseTimeToMinutes(Get(data, "cook_time"))
        otherMins == parseTimeToMinutes(Get(data, "other_time"))
        totalMins == prepMins + cookMins + otherMins
    IN  [ id |-> generateId(file.name, uuid),
          title |-> toProperCase(Or(Get(data, "name"), Str(<< >>))),
          text |-> Or(Get(data, "notes"), Str(<< >>)),
          images |-> IF Truthy(Get(data, "image")) THEN Arr(<< Get(data, "image") >>)
                     ELSE Arr(<< >>),
          categories |-> parseYMLTags(Get(data, "tags")),
          yield |-> Or(Get(data, "servings"), Str(<< >>)),
          prepTime |-> Str(formatMinutesToHM(prepMins)),
          cookTime |-> Str(formatMinutesToHM(cookMins)),
          otherTime |-> Str(formatMinutesToHM(otherMins)),
          totalTime |-> Str(formatMinutesToHM(totalMins)),
          ingredients |-> formatYMLIngredients(Get(data, "ingredients")),
          instructions |-> formatYMLDirections(Get(data, "directions")),
          notes |-> Or(Get(data, "notes"), Str(<< >>)),
          nutrition |-> Or(Get(data, "nutritional_info"), Str(<< >>)),
          link |-> Or(Get(data, "source"), Str(<< >>)),
          favorite |-> Bool(\/ Get(data, "favorite") = Str(<< "y", "e", "s" >>)
                            \/ Get(data, "on_favorites") = Str(<< "y", "e", "s" >>)),
          wantToCook |-> Bool(FALSE),
          date |-> Or(parseYMLDate(Get(data, "created")), Frac(now, 1000)) ]

(***************************************************************************)
(* Image payloads: base64, the data URL and its post-processing.            *)
(***************************************************************************)
B64Alphabet == Uppers \o Lowers \o DigitChars \o << "+", "/" >>

B64(n) == B64Alphabet[n + 1]

\* Buffer.toString("base64") on a sequence of bytes (0 .. 255)
RECURSIVE base64(_)
base64(bytes) ==
    IF bytes = << >> THEN << >>
    ELSE IF Len(bytes) = 1
         THEN << B64(bytes[1] \div 4), B64((bytes[1] % 4) * 16), "=", "=" >>
    ELSE IF Len(bytes) = 2
         THEN << B64(bytes[1] \div 4),
                 B64((bytes[1] % 4) * 16 + bytes[2] \div 16),
                 B64((bytes[2] % 16) * 4), "=" >>
    ELSE << B64(bytes[1] \div 4),
            B64((bytes[1] % 4) * 16 + bytes[2] \div 16),
            B64((bytes[2] % 16) * 4 + bytes[3] \div 64),
            B64(bytes[3] % 64) >> \o base64(SubSeq(bytes, 4, Len(bytes)))

DataPrefix == << "d", "a", "t", "a", ":" >>

ImagePrefix == << "i", "m", "a", "g", "e", "/" >>

Base64Marker == << ";", "b", "a", "s", "e", "6", "4", "," >>

\* `data:${contentType};base64,${base64}`
dataUrl(contentType, chunks) ==
    DataPrefix \o contentType \o Base64Marker \o base64(Concat(chunks))

\* s.replace(/^data:image\/[a-zA-Z0-9.+-]+;base64,/, "")
stripDataPrefix(s) ==
    LET from == Len(DataPrefix) + Len(ImagePrefix) + 1
        to == RunEnd(s, from, "subtype")
    IN  IF /\ startsWith(s, DataPrefix \o ImagePrefix)
           /\ to >= from
           /\ startsWith(SubSeq(s, to + 1, Len(s)), Base64Marker)
        THEN SubSeq(s, to + 1 + Len(Base64Marker), Len(s))
        ELSE s

\* s.replace(/\//g, "\\/"): every slash becomes backslash, slash
RECURSIVE escapeSlashes(_)
escapeSlashes(s) ==
    IF s = << >> THEN << >>
    ELSE IF Head(s) = "/" THEN << "\\", "/" >> \o escapeSlashes(Tail(s))
    ELSE << Head(s) >> \o escapeSlashes(Tail(s))

\* base64Raw without the second replace
base64Raw_Unescaped(base64Image) == stripDataPrefix(base64Image)

\* the entry convertImagesToBase64 pushes for a downloaded data URL
base64Raw(base64Image) == escapeSlashes(stripDataPrefix(base64Image))

(***************************************************************************)
(* Serialized documents.  JSON.stringify(recipe, null, 2) is kept per       *)
(* field: a string becomes the body of its JSON string literal (with the    *)
(* escapes JSON.stringify writes), numbers and booleans stay as they are.   *)
(* A replacement of backslash-slash on the whole text acts inside the       *)
(* string literals only, since no key and no separator contains a slash.    *)
(***************************************************************************)
RECURSIVE jsonEscape(_)
jsonEscape(s) ==
    IF s = << >> THEN << >>
    ELSE (CASE Head(s) = "\"" -> << "\\", "\"" >>
            [] Head(s) = "\\" -> << "\\", "\\" >>
            [] Head(s) = "\n" -> << "\\", "n" >>
            [] Head(s) = "\t" -> << "\\", "t" >>
            [] OTHER -> << Head(s) >>) \o jsonEscape(Tail(s))

RECURSIVE stringifyValue(_)
stringifyValue(v) ==
    CASE v.t = "string" -> Str(jsonEscape(v.s))
      [] v.t = "array" -> Arr([ i \in DOMAIN v.l |-> stringifyValue(v.l[i]) ])
      [] v.t = "object" -> Obj([ k \in DOMAIN v.o |-> stringifyValue(v.o[k]) ])
      [] OTHER -> v

\* JSON.stringify(recipe, null, 2)
stringify(recipe) == [ f \in DOMAIN recipe |-> stringifyValue(recipe[f]) ]

\* text.replace(/\\\//g, "/"): backslash-slash becomes slash
RECURSIVE unescapeSlashes(_)
unescapeSlashes(s) ==
    IF s = << >> THEN << >>
    ELSE IF Len(s) >= 2 /\ s[1] = "\\" /\ s[2] = "/"
         THEN << "/" >> \o unescapeSlashes(SubSeq(s, 3, Len(s)))
    ELSE << Head(s) >> \o unescapeSlashes(Tail(s))

RECURSIVE unescapeValue(_)
unescapeValue(v) ==
    CASE v.t = "string" -> Str(unescapeSlashes(v.s))
      [] v.t = "array" -> Arr([ i \in DOMAIN v.l |-> unescapeValue(v.l[i]) ])
      [] v.t = "object" -> Obj([ k \in DOMAIN v.o |-> unescapeValue(v.o[k]) ])
      [] OTHER -> v

\* JSON.stringify(recipe, null, 2).replace(/\\\//g, "/"), the text
\* convertYMLFiles writes to <id>.melarecipe
escapedRecipe(recipe) ==
    [ f \in DOMAIN recipe |-> unescapeValue(stringifyValue(recipe[f])) ]

MelaExt == << ".", "m", "e", "l", "a", "r", "e", "c", "i", "p", "e" >>

\* `${recipe.id}.melarecipe`
melaName(recipe) == ToJSString(recipe.id) \o MelaExt

\* the entries createMelaRecipesFile appends to its archive
archiveEntries(recipes) ==
    [ i \in DOMAIN recipes |->
        [ name |-> melaName(recipes[i]), content |-> stringify(recipes[i]) ] ]

(***************************************************************************)
(* URLs and the HTTP client.                                                *)
(***************************************************************************)
Http == << "h", "t", "t", "p" >>

HttpColon == << "h", "t", "t", "p", ":" >>

HttpsColon == << "h", "t", "t", "p", "s", ":" >>

HttpScheme == << "h", "t", "t", "p", ":", "/", "/" >>

HttpsScheme == << "h", "t", "t", "p", "s", ":", "/", "/" >>

\* the test without its scheme condition
qualifies_AnyString(url) == Truthy(url) /\ typeof(url) = "string"

\* the test convertImagesToBase64 applies before it downloads an entry
qualifies(url) ==
    /\ Truthy(url)
    /\ typeof(url) = "string"
    /\ (startsWith(url.s, HttpScheme) \/ startsWith(url.s, HttpsScheme))

\* protocol.get(url, ...) throws synchronously: the client module chosen by
\* url.startsWith("https:") rejects a URL of another protocol, and a URL
\* without a host does not parse
getThrows(url) ==
    LET scheme == IF startsWith(url, HttpsColon) THEN HttpsScheme ELSE HttpScheme
    IN  ~(/\ startsWith(url, scheme)
          /\ Len(url) > Len(scheme)
          /\ url[Len(scheme) + 1] \notin { "/", ":", "?", "#" })

\* url.replace(/^(https?:\/\/[^\/]+).*/, "$1")
origin(url) ==
    LET scheme == IF startsWith(url, HttpsScheme) THEN HttpsScheme
                  ELSE IF startsWith(url, HttpScheme) THEN HttpScheme
                  ELSE << >>
        hostEnd == IF \E i \in Len(scheme) + 1 .. Len(url) : url[i] = "/"
                   THEN (CHOOSE i \in Len(scheme) + 1 .. Len(url) :
                             url[i] = "/" /\ \A j \in Len(scheme) + 1 .. i - 1 : url[j] # "/") - 1
                   ELSE Len(url)
    IN  IF scheme # << >> /\ hostEnd > Len(scheme) THEN SubSeq(url, 1, hostEnd)
        ELSE url

\* the URL a redirect response sends downloadImageAsBase64 to
redirectUrl(url, location) ==
    IF startsWith(location, Http) THEN location ELSE origin(url) \o location

(***************************************************************************)
(* State.                                                                   *)
(***************************************************************************)
VARIABLES
    call,             \* what is run: "cli" (the CLI block) or the name of a
                      \* function called directly
    arg,              \* process.argv[2] for the CLI, else the call's argument
    options,          \* the argument given to new RecipeConverter(...)
    recipesDir,       \* ./recipes: [HTML |-> dir, YML |-> dir]
    pc,               \* where the main async routine stands
    files,            \* htmlFiles / ymlFiles of the running convert method
    fileIdx,          \* position of its for loop in files
    recipe,           \* the recipe in hand (Null: the parser returned null)
    convertedRecipes, \* convertedRecipes of the running convert method
    htmlRecipes,      \* htmlRecipes of convertAll
    images,           \* frame of convertImagesToBase64: imageUrls (list), the
                      \* position of its loop (i), base64Images (out), the
                      \* values its awaits returned (got), its caller (ret)
    req,              \* the request downloadImageAsBase64 has in flight
    promise,          \* the promise downloadImageAsBase64 returned
    requests,         \* protocol.get calls made for the current image
    outputDir,        \* ./output: file name -> text written
    writers,          \* archive writers opened on recipes.melarecipes
    log,              \* console output
    result            \* value the call returned / exit status of the CLI

vars == << call, arg, options, recipesDir, pc, files, fileIdx, recipe,
           convertedRecipes, htmlRecipes, images, req, promise, requests,
           outputDir, writers, log, result >>

inputVars == << call, arg, options, recipesDir >>

loopVars == << files, fileIdx, convertedRecipes, htmlRecipes >>

netVars == << req, promise, requests >>

diskVars == << outputDir, writers >>

\* a redirect limit one hop larger
MAX_REDIRECTS_OneMore == 5 + 1

MAX_REDIRECTS == 5

NoReq == [ phase |-> "none" ]

NoPromise == [ state |-> "none" ]

NoFrame == [ ret |-> "none" ]

NoDir == [ exists |-> FALSE, files |-> << >> ]

Dir(fs) == [ exists |-> TRUE, files |-> fs ]

\* console.log / console.warn / console.error, by what they are about
Line(level, what, about) == [ level |-> level, what |-> what, about |-> about ]

\* the values Date.now() takes (milliseconds)
Clock == { 1750853, 1750999 }

\* the value uuidv4() returns
Uuid == << "u", "u", "i", "d" >>

HtmlExt == << ".", "h", "t", "m", "l" >>

YmlExt == << ".", "y", "m", "l" >>

(***************************************************************************)
(* The network: what a server may answer and the bytes it may send.         *)
(***************************************************************************)
ImagePng == << "i", "m", "a", "g", "e", "/", "p", "n", "g" >>

ImageSvg == << "i", "m", "a", "g", "e", "/", "s", "v", "g", "+", "x", "m", "l" >>

\* an image type with a parameter, as some servers label their answers
ImagePngQ == << "i", "m", "a", "g", "e", "/", "p", "n", "g", ";", "q" >>

TextHtml == << "t", "e", "x", "t", "/", "h", "t", "m", "l" >>

\* location headers: relative, absolute, and absolute with a protocol no
\* client module accepts
Locations == { << "/", "k" >>,
               HttpsScheme \o << "c", "/", "k" >>,
               Http \o << "x", ":", "/", "/", "c" >> }

Header(status, location, contentType) ==
    [ statusCode |-> status, location |-> location, contentType |-> contentType ]

Responses ==
    { Header(200, Undef, Str(ct)) : ct \in { ImagePng, ImageSvg, ImagePngQ, TextHtml } }
    \cup { Header(200, Undef, Undef), Header(404, Undef, Str(ImagePng)),
           Header(301, Undef, Str(ImagePng)) }
    \cup { Header(301, Str(l), Undef) : l \in Locations }

\* the chunks a body arrives in, as sequences of bytes
Chunks == { << 255 >> }

BodyLen(chunks) == Len(Concat(chunks))

(***************************************************************************)
(* convertImagesToBase64 and downloadImageAsBase64.                         *)
(***************************************************************************)
Settle(state, value) == [ state |-> state, value |-> value ]

\* the call convertImagesToBase64(imageUrls) made by the caller ret; the
\* early return of [] for a non-array or an empty array is the loop over
\* no entry
ImagesBegin(imageUrls, ret) ==
    /\ images' = [ list |-> IF imageUrls.t = "array" THEN imageUrls.l ELSE << >>,
                   i |-> 1, out |-> << >>, got |-> << >>, ret |-> ret ]
    /\ pc' = "images"

\* convertImagesToBase64 returns base64Images to its caller
ImagesReturn ==
    LET out == Arr([ k \in DOMAIN images.out |-> Str(images.out[k]) ])
    IN  /\ images' = IF images.ret = "convertImagesToBase64"
                      THEN [ images EXCEPT !.ret = "returned" ] ELSE NoFrame
        /\ CASE images.ret = "html" ->
                  /\ recipe' = [ recipe EXCEPT !.images = out ]
                  /\ pc' = "htmlRecipe"
                  /\ UNCHANGED result
             [] images.ret = "parseHTMLRecipe" ->
                  /\ recipe' = [ recipe EXCEPT !.images = out ]
                  /\ result' = recipe'
                  /\ pc' = "returned"
             [] images.ret = "yml" ->
                  /\ recipe' = [ recipe EXCEPT !.images = out ]
                  /\ pc' = "ymlRecipe"
                  /\ UNCHANGED result
             [] images.ret = "convertImagesToBase64" ->
                  /\ result' = out
                  /\ pc' = "returned"
                  /\ UNCHANGED recipe
        /\ UNCHANGED log

\* one turn of the for loop of convertImagesToBase64, up to its await
ImagesStep ==
    /\ pc = "images"
    /\ IF images.i > Len(images.list)
       THEN ImagesReturn /\ req' = NoReq /\ promise' = NoPromise /\ requests' = 0
       ELSE LET url == images.list[images.i]
            IN  IF ~qualifies(url)
                THEN /\ images' = [ images EXCEPT !.i = @ + 1 ]
                     /\ UNCHANGED << pc, recipe, result, log, netVars >>
                ELSE /\ log' = Append(log, Line("log", "download", url.s))
                     /\ pc' = "await"
                     /\ IF getThrows(url.s)
                        THEN /\ promise' = Settle("rejected", Thrown)
                             /\ req' = NoReq
                             /\ requests' = 0
                        ELSE /\ promise' = Settle("pending", Undef)
                             /\ req' = [ phase |-> "sent", url |-> url.s,
                                         redirectCount |-> 0, response |-> Undef,
                                         contentType |-> << >>, chunks |-> << >> ]
                             /\ requests' = 1
                     /\ UNCHANGED << images, recipe, result >>
    /\ UNCHANGED << inputVars, loopVars, diskVars >>

\* an await that goes on whether or not the promise has settled
Settled_OrPending(p) == p.state # "none"

\* await p goes on once p has settled
Settled(p) == p.state \in { "fulfilled", "rejected" }

\* the await of convertImagesToBase64 resumes with the settled promise
AwaitResume ==
    /\ pc = "await"
    /\ Settled(promise)
    /\ IF promise.state = "fulfilled"
       THEN /\ images' = [ images EXCEPT
                             !.i = @ + 1,
                             !.got = Append(@, [ i |-> images.i,
                                                 value |-> promise.value ]),
                             !.out = IF Truthy(promise.value)
                                     THEN Append(@, base64Raw(promise.value.s))
                                     ELSE @ ]
            /\ pc' = "images"
            /\ UNCHANGED << recipe, result, log >>
       ELSE \* the rejection leaves convertImagesToBase64 and reaches the
            \* nearest catch of the caller
            /\ images' = NoFrame
            /\ CASE images.ret = "html" ->
                      /\ recipe' = Null
                      /\ pc' = "htmlRecipe"
                      /\ log' = Append(log, Line("error", "file", files[fileIdx].name))
                      /\ UNCHANGED result
                 [] images.ret = "parseHTMLRecipe" ->
                      /\ recipe' = Null
                      /\ result' = Null
                      /\ pc' = "returned"
                      /\ log' = Append(log, Line("error", "file", arg.name))
                 [] images.ret = "yml" ->
                      /\ pc' = "exit"
                      /\ result' = Num(1)
                      /\ log' = Append(log, Line("error", "conversion", << >>))
                      /\ UNCHANGED recipe
                 [] images.ret = "convertImagesToBase64" ->
                      /\ pc' = "rejected"
                      /\ result' = Thrown
                      /\ UNCHANGED << recipe, log >>
    \* the request is over; the promise stays settled
    /\ req' = NoReq
    /\ requests' = 0
    /\ UNCHANGED << inputVars, loopVars, promise, diskVars >>

\* resolve(value); the request is left in the given phase
Resolve(value, phase) ==
    /\ promise' = Settle("fulfilled", value)
    /\ req' = [ req EXCEPT !.phase = phase ]

\* resolve(null) by the response callback on the response r
Drop(r) ==
    /\ promise' = Settle("fulfilled", Null)
    /\ req' = [ req EXCEPT !.phase = "dropped", !.response = r ]
    /\ log' = Append(log, Line("warn", "image", << >>))
    /\ UNCHANGED requests

\* the response is a redirect the callback handles as one
IsRedirect(r) == r.statusCode >= 300 /\ r.statusCode < 400 /\ Truthy(r.location)

\* the response callback of protocol.get
Response(r) ==
    /\ req.phase = "sent"
    /\ IF IsRedirect(r)
       THEN IF req.redirectCount < MAX_REDIRECTS
            THEN LET target == redirectUrl(req.url, r.location.s)
                 IN  \* response.destroy(), then the recursive call, whose
                     \* promise the outer promise follows
                     IF getThrows(target)
                     THEN /\ promise' = Settle("rejected", Thrown)
                          /\ req' = [ req EXCEPT !.phase = "destroyed",
                                                  !.response = r ]
                          /\ UNCHANGED << requests, log >>
                     ELSE /\ req' = [ req EXCEPT !.url = target,
                                                  !.redirectCount = @ + 1 ]
                          /\ requests' = requests + 1
                          /\ UNCHANGED << promise, log >>
            ELSE Drop(r)
       ELSE IF r.statusCode # 200 THEN Drop(r)
       ELSE LET contentType == Or(r.contentType, Str(<< >>)).s
            IN  IF ~startsWith(contentType, ImagePrefix) THEN Drop(r)
                ELSE /\ req' = [ req EXCEPT !.phase = "body", !.response = r,
                                             !.contentType = contentType ]
                     /\ UNCHANGED << promise, requests, log >>
    /\ UNCHANGED << inputVars, pc, loopVars, recipe, images, diskVars, result >>

\* response.on("data", chunk => chunks.push(chunk))
Data(chunk) ==
    /\ req.phase = "body"
    /\ BodyLen(req.chunks) + Len(chunk) <= MaxBody
    /\ req' = [ req EXCEPT !.chunks = Append(@, chunk) ]
    /\ UNCHANGED << inputVars, pc, loopVars, recipe, images, promise, requests,
                    diskVars, log, result >>

\* response.on("end", ...)
End ==
    /\ req.phase = "body"
    /\ Resolve(Str(dataUrl(req.contentType, req.chunks)), "ended")
    /\ UNCHANGED << inputVars, pc, loopVars, recipe, images, requests, diskVars,
                    log, result >>

\* request.on("error", ...): the request fails before a response arrives
RequestError ==
    /\ req.phase = "sent"
    /\ Resolve(Null, "failed")
    /\ log' = Append(log, Line("warn", "image", << >>))
    /\ UNCHANGED << inputVars, pc, loopVars, recipe, images, requests, diskVars,
                    result >>

\* request.setTimeout(TIMEOUT_MS, ...): the socket stayed idle; the callback
\* aborts the request
Timeout ==
    /\ req.phase \in { "sent", "body" }
    /\ Resolve(Null, "aborted")
    /\ log' = Append(log, Line("warn", "image", << >>))
    /\ UNCHANGED << inputVars, pc, loopVars, recipe, images, requests, diskVars,
                    result >>

\* the connection is lost after the response headers and before the end of
\* the body: the response emits "aborted" and "close" and never "end", the
\* request emits no "error", and a closed socket has no idle timeout
ConnectionLost ==
    /\ req.phase = "body"
    /\ req' = [ req EXCEPT !.phase = "lost" ]
    /\ UNCHANGED << inputVars, pc, loopVars, recipe, images, promise, requests,
                    diskVars, log, result >>

Network ==
    \/ \E r \in Responses : Response(r)
    \/ \E chunk \in Chunks : Data(chunk)
    \/ End
    \/ RequestError
    \/ Timeout
    \/ ConnectionLost

(***************************************************************************)
(* The batch methods and the CLI.                                           *)
(***************************************************************************)
\* the synchronous part of parseHTMLRecipe(file), called by ret, with the
\* console lines pre written before it
ParseHTMLStart(file, ret, pre) ==
    LET warn == IF file.readable /\ file.jsonld = "invalid"
                THEN << Line("warn", "jsonld", file.name) >> ELSE << >>
    IN  IF parseHTMLRecipeThrows(file)
        THEN /\ recipe' = Null
             /\ log' = log \o pre \o warn \o << Line("error", "file", file.name) >>
             /\ IF ret = "html"
                THEN pc' = "htmlRecipe" /\ UNCHANGED result
                ELSE pc' = "returned" /\ result' = Null
             /\ UNCHANGED images
        ELSE \E now \in Clock :
                /\ recipe' = HTMLRecipe(file, now, Uuid)
                /\ log' = log \o pre \o warn
                              \o << Line("log", "processing", recipe'.title.s) >>
                /\ ImagesBegin(recipe'.images, ret)
                /\ UNCHANGED result

\* the CLI block: command selects the method
CLI ==
    /\ pc = "start"
    /\ call = "cli"
    /\ IF arg = "html" THEN pc' = "convertHTMLFiles" /\ UNCHANGED log
       ELSE IF arg = "yml" THEN pc' = "convertYMLFiles" /\ UNCHANGED log
       ELSE /\ pc' = "convertHTMLFiles"
            /\ log' = Append(log, Line("log", "starting", << >>))
    /\ UNCHANGED << inputVars, loopVars, recipe, images, netVars, diskVars, result >>

\* convertHTMLFiles returns list: to the CLI (html) or to convertAll
HTMLReturn(list) ==
    IF arg = "html"
    THEN pc' = "done" /\ result' = Num(0) /\ UNCHANGED htmlRecipes
    ELSE pc' = "convertYMLFiles" /\ htmlRecipes' = list /\ UNCHANGED result

\* convertHTMLFiles up to its for loop
ConvertHTMLFilesBegin ==
    /\ pc = "convertHTMLFiles"
    /\ IF ~recipesDir.HTML.exists
       THEN /\ HTMLReturn(<< >>)
            /\ log' = Append(log, Line("log", "nodir", << >>))
            /\ UNCHANGED << files, fileIdx, convertedRecipes >>
       ELSE /\ files' = SelectSeq(recipesDir.HTML.files,
                                  LAMBDA f : endsWith(f.name, HtmlExt))
            /\ fileIdx' = 1
            /\ convertedRecipes' = << >>
            /\ pc' = "htmlLoop"
            /\ UNCHANGED << htmlRecipes, result, log >>
    /\ UNCHANGED << inputVars, recipe, images, netVars, diskVars >>

\* the head of the for loop of convertHTMLFiles and the call of
\* parseHTMLRecipe up to its await
HTMLLoop ==
    /\ pc = "htmlLoop"
    /\ IF fileIdx > Len(files)
       THEN /\ HTMLReturn(convertedRecipes)
            /\ UNCHANGED << recipe, images, log >>
       ELSE /\ ParseHTMLStart(files[fileIdx], "html",
                              << Line("log", "converting", files[fileIdx].name) >>)
            /\ UNCHANGED htmlRecipes
    /\ UNCHANGED << inputVars, files, fileIdx, convertedRecipes, netVars, diskVars >>

\* the rest of the loop body of convertHTMLFiles: fs.writeFileSync(outputPath,
\* json) reads the undeclared name json, a ReferenceError that no try block
\* of the method catches, so it reaches the catch of the CLI block
HTMLWrite ==
    /\ pc = "htmlRecipe"
    /\ IF recipe # Null
       THEN /\ pc' = "exit"
            /\ result' = Num(1)
            /\ log' = Append(log, Line("error", "conversion", << >>))
            /\ UNCHANGED fileIdx
       ELSE /\ fileIdx' = fileIdx + 1
            /\ pc' = "htmlLoop"
            /\ UNCHANGED << result, log >>
    /\ UNCHANGED << inputVars, files, convertedRecipes, htmlRecipes, recipe, images,
                    netVars, diskVars >>

\* createMelaRecipesFile(recipes): a write stream on recipes.melarecipes and
\* an archive piped into it, filled and finalized; the writing itself
\* happens later, on the event loop
createMelaRecipesFile(ws, recipes) ==
    Append(ws, [ entries |-> archiveEntries(recipes), state |-> "open" ])

\* convertYMLFiles up to its for loop
ConvertYMLFilesBegin ==
    /\ pc = "convertYMLFiles"
    /\ IF ~recipesDir.YML.exists
       THEN /\ log' = Append(log, Line("log", "nodir", << >>))
            /\ convertedRecipes' = << >>
            /\ IF arg = "yml" THEN pc' = "done" /\ result' = Num(0)
               ELSE pc' = "convertAll" /\ UNCHANGED result
            /\ UNCHANGED << files, fileIdx >>
       ELSE /\ files' = SelectSeq(recipesDir.YML.files,
                                  LAMBDA f : endsWith(f.name, YmlExt))
            /\ fileIdx' = 1
            /\ convertedRecipes' = << >>
            /\ pc' = "ymlLoop"
            /\ UNCHANGED << result, log >>
    /\ UNCHANGED << inputVars, htmlRecipes, recipe, images, netVars, diskVars >>

\* the head of the for loop of convertYMLFiles with the call of
\* parseYMLRecipe, up to the await; after the last file, the archive and the
\* return
YMLLoop ==
    /\ pc = "ymlLoop"
    /\ IF fileIdx > Len(files)
       THEN /\ writers' = IF Len(convertedRecipes) > 0
                          THEN createMelaRecipesFile(writers, convertedRecipes)
                          ELSE writers
            /\ IF arg = "yml" THEN pc' = "done" /\ result' = Num(0)
               ELSE pc' = "convertAll" /\ UNCHANGED result
            /\ UNCHANGED << fileIdx, recipe, images, log >>
       ELSE \E now \in Clock :
              LET file == files[fileIdx]
                  parsed == parseYMLRecipe(file, now, Uuid)
                  pre == << Line("log", "converting", file.name) >>
              IN  /\ recipe' = parsed
                  /\ IF parsed = Null
                     THEN /\ log' = log \o pre \o << Line("error", "file", file.name) >>
                          /\ fileIdx' = fileIdx + 1
                          /\ UNCHANGED << pc, images >>
                     ELSE /\ log' = log \o pre
                                  \o << Line("log", "processing", parsed.title.s) >>
                          /\ ImagesBegin(parsed.images, "yml")
                          /\ UNCHANGED fileIdx
                  /\ UNCHANGED << writers, result >>
    /\ UNCHANGED << inputVars, files, convertedRecipes, htmlRecipes, netVars,
                    outputDir >>

\* the rest of the loop body of convertYMLFiles: the per-record file
YMLWrite ==
    /\ pc = "ymlRecipe"
    /\ outputDir' = (melaName(recipe) :> escapedRecipe(recipe)) @@ outputDir
    /\ convertedRecipes' = Append(convertedRecipes, recipe)
    /\ log' = Append(log, Line("log", "converted", melaName(recipe)))
    /\ fileIdx' = fileIdx + 1
    /\ pc' = "ymlLoop"
    /\ UNCHANGED << inputVars, files, htmlRecipes, recipe, images, netVars, writers,
                    result >>

\* convertAll after both awaits
ConvertAllFinish ==
    /\ pc = "convertAll"
    /\ LET allRecipes == htmlRecipes \o convertedRecipes
       IN  /\ writers' = IF Len(allRecipes) > 0
                         THEN createMelaRecipesFile(writers, allRecipes)
                         ELSE writers
           /\ log' = Append(log, Line("log", "complete", ToStr(Len(allRecipes))))
    /\ pc' = "done"
    /\ result' = Num(0)
    /\ UNCHANGED << inputVars, loopVars, recipe, images, netVars, outputDir >>

\* an archive writer finishes: output's "close" event.  Events are delivered
\* only while the main routine is suspended or over, and process.exit(1)
\* ends the writers with the process
ArchiveClose ==
    /\ pc \in { "await", "done" }
    /\ \E k \in DOMAIN writers :
          /\ writers[k].state = "open"
          /\ writers' = [ writers EXCEPT ![k].state = "closed" ]
    /\ UNCHANGED << inputVars, pc, loopVars, recipe, images, netVars, outputDir,
                    log, result >>

(***************************************************************************)
(* Direct calls of the functions, as test-image-conversion.js and           *)
(* example-usage.js make them.                                              *)
(***************************************************************************)
FormatCall ==
    /\ pc = "start"
    /\ call = "formatMinutesToHM"
    /\ result' = Str(formatMinutesToHM(arg))
    /\ pc' = "returned"
    /\ UNCHANGED << inputVars, loopVars, recipe, images, netVars, diskVars, log >>

ParseYMLCall ==
    /\ pc = "start"
    /\ call = "parseYMLRecipe"
    /\ \E now \in Clock :
          /\ result' = parseYMLRecipe(arg, now, Uuid)
          /\ recipe' = result'
          /\ log' = IF result' = Null
                    THEN Append(log, Line("error", "file", arg.name)) ELSE log
    /\ pc' = "returned"
    /\ UNCHANGED << inputVars, loopVars, images, netVars, diskVars >>

ParseHTMLCall ==
    /\ pc = "start"
    /\ call = "parseHTMLRecipe"
    /\ ParseHTMLStart(arg, "parseHTMLRecipe", << >>)
    /\ UNCHANGED << inputVars, loopVars, netVars, diskVars >>

ImagesCall ==
    /\ pc = "start"
    /\ call = "convertImagesToBase64"
    /\ ImagesBegin(arg, "convertImagesToBase64")
    /\ UNCHANGED << inputVars, loopVars, recipe, netVars, diskVars, log, result >>

(***************************************************************************)
(* Inputs.                                                                  *)
(***************************************************************************)
\* image references
UrlA == << "h", "t", "t", "p", ":", "/", "/", "a", "/", "i" >>

UrlB == << "h", "t", "t", "p", "s", ":", "/", "/", "b", "/", "j" >>

\* starts with http:// and has no host
UrlNoHost == << "h", "t", "t", "p", ":", "/", "/" >>

InlinePayload == << "d", "a", "t", "a", ":", "i", "m", "a", "g", "e", "/", "p", "n", "g", ";", "b", "a", "s", "e", "6", "4", ",", "A", "A", "=", "=" >>

RelativeRef == << "/", "i", ".", "p", "n", "g" >>

ImageRefs == { Str(UrlA), Str(UrlB), Str(UrlNoHost), Str(InlinePayload),
               Str(RelativeRef), Str(<< >>), Num(5), Null }

\* values a field of a parsed YAML or JSON-LD document may have
FieldValues ==
    { Undef, Null, Str(<< >>), Str(<< "x", " ", "y" >>), Str(<< "y", "e", "s" >>),
      Str(<< "P", "T", "1", "H", "3", "0", "M" >>), Str(<< "9", "0", " ", "M", "i", "n", "u", "t", "e", "s" >>), Str(<< "a", " ", "(", "1", "7", "5", "0", ")" >>),
      Num(0), Num(4), Bool(TRUE), Arr(<< >>),
      Arr(<< Str(<< "a" >>), Num(2) >>), Arr(<< Null >>),
      Obj([ url |-> Str(<< "u" >>), text |-> Str(<< "t" >>) ]) }

\* titles
Names == { << "a", "p", "p", "l", "e", " ", "p", "i", "e" >>, << "A", "P", "P", "L", "E", " ", "P", "I", "E" >>, << "a", "p", "p", "l", "e", "-", "b", "r", "i", "n", "e", "d", " ", "T", "u", "r", "k", "e", "y" >>, << "p", "i", "e" >> }

YmlKeys == { "name", "notes", "image", "tags", "servings", "prep_time", "cook_time",
             "other_time", "ingredients", "directions", "nutritional_info", "source",
             "favorite", "on_favorites", "created" }

YmlBase ==
    [ name |-> Str(<< "a", "p", "p", "l", "e", " ", "p", "i", "e" >>),
      notes |-> Str(<< "n" >>),
      image |-> Str(InlinePayload),
      tags |-> Str(<< "A", "\n", " ", "B", "\n" >>),
      servings |-> Str(<< "4", " ", "c", "u", "p", "s" >>),
      prep_time |-> Str(<< "5", " ", "m", "i", "n", "u", "t", "e", "s" >>),
      cook_time |-> Str(<< "7", "0", " ", "m", "i", "n", "u", "t", "e", "s" >>),
      other_time |-> Undef,
      ingredients |-> Str(<< "a", "\n", "\n", "b" >>),
      directions |-> Str(<< "M", "i", "x", ".", "\n", "B", "a", "k", "e", "." >>),
      nutritional_info |-> Str(<< "F", "a", "t", ":", " ", "5", "g" >>),
      source |-> Str(<< "s" >>),
      favorite |-> Str(<< "n", "o" >>),
      on_favorites |-> Undef,
      created |-> Str(<< "A", "p", "p", " ", "(", "1", "7", "5", "0", ")" >>) ]

YmlFile(name, data) ==
    [ name |-> name, readable |-> TRUE, parses |-> TRUE, data |-> data ]

\* a file yaml.parse rejects
YmlMalformed(name) ==
    [ name |-> name, readable |-> TRUE, parses |-> FALSE, data |-> Null ]

SdKeys == { "name", "description", "image", "recipeCategory", "keywords",
            "recipeYield", "prepTime", "cookTime", "recipeIngredient",
            "recipeInstructions", "notes", "nutrition", "author" }

SdBase ==
    [ name |-> Str(<< "a", "p", "p", "l", "e", " ", "p", "i", "e" >>),
      description |-> Str(<< "d" >>),
      image |-> Arr(<< Str(RelativeRef) >>),
      recipeCategory |-> Str(<< "P", "i", "e" >>),
      keywords |-> Str(<< "a", ",", " ", "b" >>),
      recipeYield |-> Str(<< "4" >>),
      prepTime |-> Str(<< "P", "T", "1", "H", "3", "0", "M" >>),
      cookTime |-> Str(<< "P", "T", "4", "5", "M" >>),
      recipeIngredient |-> Arr(<< Str(<< "a" >>), Str(<< "b" >>) >>),
      recipeInstructions |-> Arr(<< Obj([ text |-> Str(<< "M", "i", "x" >>) ]), Str(<< "B", "a", "k", "e" >>) >>),
      notes |-> Undef,
      nutrition |-> Undef,
      author |-> Obj([ url |-> Str(<< "u" >>) ]) ]

\* a document without any of the elements the selectors look for
EmptyDoc ==
    [ name |-> Undef, description |-> Undef, recipeYield |-> Undef,
      prepTime |-> Undef, cookTime |-> Undef, nutrition |-> Undef,
      author |-> Undef, images |-> << >>, ingredients |-> << >>,
      instructions |-> << >> ]

\* a document marked up with itemprop attributes
MicrodataDoc ==
    [ name |-> Str(<< " ", "p", "l", "u", "m", " ", "t", "a", "r", "t", " " >>), description |-> Str(<< "d" >>),
      recipeYield |-> Str(<< "2" >>), prepTime |-> Str(<< "1", "0", " ", "m", "i", "n", "u", "t", "e", "s" >>),
      cookTime |-> Str(<< "P", "T", "2", "0", "M" >>), nutrition |-> Undef, author |-> Str(<< "m", "e" >>),
      images |-> << [ src |-> Str(RelativeRef), content |-> Null ],
                    [ src |-> Null, content |-> Str(RelativeRef) ] >>,
      ingredients |-> << Str(<< " ", "a", " " >>), Str(<< "b" >>) >>,
      instructions |-> << Str(<< "M", "i", "x" >>), Str(<< "B", "a", "k", "e", " " >>) >> ]

HtmlFile(name, jsonld, sd, doc) ==
    [ name |-> name, readable |-> TRUE, jsonld |-> jsonld, sd |-> sd, doc |-> doc ]

\* a file fs.readFileSync cannot read
HtmlUnreadable(name) ==
    [ name |-> name, readable |-> FALSE, jsonld |-> "none", sd |-> Null,
      doc |-> EmptyDoc ]

\* the arguments of the direct calls of parseYMLRecipe
YmlInputs ==
    { YmlFile(<< "r", ".", "y", "m", "l" >>, Obj([ YmlBase EXCEPT ![k] = v ])) :
          k \in YmlKeys, v \in FieldValues }
    \cup { YmlFile(<< "r", ".", "y", "m", "l" >>, Obj([ YmlBase EXCEPT !.name = Str(n) ])) : n \in Names }
    \cup { YmlFile(<< "r", ".", "y", "m", "l" >>, d) : d \in { Null, Str(<< "x" >>), Num(3), Obj([ a |-> Null ]) } }
    \cup { YmlMalformed(<< "r", ".", "y", "m", "l" >>) }

\* the arguments of the direct calls of parseHTMLRecipe
HtmlInputs ==
    { HtmlFile(<< "r", ".", "h", "t", "m", "l" >>, "valid", Obj([ SdBase EXCEPT ![k] = v ]), EmptyDoc) :
          k \in SdKeys, v \in FieldValues }
    \cup { HtmlFile(<< "r", ".", "h", "t", "m", "l" >>, "valid", Obj([ SdBase EXCEPT !.name = Str(n) ]),
                    MicrodataDoc) : n \in Names }
    \cup { HtmlFile(<< "r", ".", "h", "t", "m", "l" >>, "valid", Obj([ SdBase EXCEPT !.image = Str(UrlA) ]),
                    MicrodataDoc) }
    \cup { HtmlFile(<< "r", ".", "h", "t", "m", "l" >>, j, Null, d) :
               j \in { "none", "invalid" }, d \in { EmptyDoc, MicrodataDoc } }
    \cup { HtmlFile(<< "r", ".", "h", "t", "m", "l" >>, "valid", d, MicrodataDoc) :
               d \in { Null, Num(3), Arr(<< Obj(SdBase) >>) } }
    \cup { HtmlUnreadable(<< "r", ".", "h", "t", "m", "l" >>) }

\* sequences without repetition of at most n elements of S
RECURSIVE Listings(_, _)
Listings(S, n) ==
    IF n = 0 THEN { << >> }
    ELSE { << >> } \cup
         { << x >> \o rest : x \in S, rest \in Listings(S, n - 1) }

NoRepeat(l) == \A i, j \in DOMAIN l : i # j => l[i] # l[j]

\* the files of recipes/YML of the batch runs: a recipe with a remote image,
\* a malformed file, a recipe whose image URL has no host, and a file of
\* another extension
YmlPool ==
    { YmlFile(<< "a", ".", "y", "m", "l" >>, Obj([ YmlBase EXCEPT !.image = Str(UrlA) ])),
      YmlMalformed(<< "b", ".", "y", "m", "l" >>),
      YmlFile(<< "c", ".", "y", "m", "l" >>, Obj([ YmlBase EXCEPT !.image = Str(UrlNoHost) ])),
      YmlFile(<< "n", ".", "t", "x", "t" >>, Obj(YmlBase)) }

\* the files of recipes/HTML of the batch runs: a recipe with a remote
\* image, an unreadable file, and a recipe without a remote image
HtmlPool ==
    { HtmlFile(<< "a", ".", "h", "t", "m", "l" >>, "valid", Obj([ SdBase EXCEPT !.image = Str(UrlB) ]), EmptyDoc),
      HtmlUnreadable(<< "b", ".", "h", "t", "m", "l" >>),
      HtmlFile(<< "e", ".", "h", "t", "m", "l" >>, "invalid", Null, MicrodataDoc) }

Dirs(pool) ==
    { NoDir } \cup { Dir(l) : l \in { x \in Listings(pool, MaxFiles) : NoRepeat(x) } }

\* process.argv[2]; "none" stands for its absence
Commands == { "html", "yml", "all", "none" }

\* the arguments given to the constructor
Options == { Undef, Obj([ titleCaseMode |-> Str(<< "t", "i", "t", "l", "e" >>) ]),
             Obj([ titleCaseMode |-> Str(<< "p", "r", "o", "p", "e", "r" >>) ]) }

(***************************************************************************)
(* Specifications.                                                          *)
(***************************************************************************)
\* the state after new RecipeConverter(options), before the call runs
Idle ==
    /\ pc = "start"
    /\ files = << >>
    /\ fileIdx = 1
    /\ recipe = Null
    /\ convertedRecipes = << >>
    /\ htmlRecipes = << >>
    /\ images = NoFrame
    /\ req = NoReq
    /\ promise = NoPromise
    /\ requests = 0
    /\ outputDir = << >>
    /\ writers = << >>
    /\ log = << >>
    /\ result = Undef

\* a run of the CLI
Init ==
    /\ call = "cli"
    /\ arg \in Commands
    /\ options = Undef
    /\ recipesDir \in [ HTML : Dirs(HtmlPool), YML : Dirs(YmlPool) ]
    /\ Idle

Next ==
    \/ CLI
    \/ ConvertHTMLFilesBegin
    \/ HTMLLoop
    \/ HTMLWrite
    \/ ConvertYMLFilesBegin
    \/ YMLLoop
    \/ YMLWrite
    \/ ConvertAllFinish
    \/ ArchiveClose
    \/ ImagesStep
    \/ AwaitResume
    \/ Network

Spec == Init /\ [][Next]_vars

\* a direct call of convertImagesToBase64
InitImages ==
    /\ call = "convertImagesToBase64"
    /\ arg \in { Arr(l) : l \in { x \in Listings(ImageRefs, MaxImages) : NoRepeat(x) } }
               \cup { Undef }
    /\ options = Undef
    /\ recipesDir = [ HTML |-> NoDir, YML |-> NoDir ]
    /\ Idle

NextImages ==
    \/ ImagesCall
    \/ ImagesStep
    \/ AwaitResume
    \/ Network

SpecImages == InitImages /\ [][NextImages]_vars

\* a direct call of a parser or of formatMinutesToHM
InitParse ==
    /\ \/ call = "formatMinutesToHM" /\ arg \in 0 .. MaxMinutes
       \/ call = "parseYMLRecipe" /\ arg \in YmlInputs
       \/ call = "parseHTMLRecipe" /\ arg \in HtmlInputs
    /\ options \in Options
    /\ recipesDir = [ HTML |-> NoDir, YML |-> NoDir ]
    /\ Idle

NextParse ==
    \/ FormatCall
    \/ ParseYMLCall
    \/ ParseHTMLCall
    \/ ImagesStep
    \/ AwaitResume
    \/ Network

SpecParse == InitParse /\ [][NextParse]_vars

\* the files of recipes/YML and recipes/HTML of the runs without a remote
\* image: recipes whose names share a stem or have none, and a malformed
\* file of each type
LocalYmlPool ==
    { YmlFile(<< "a", ".", "y", "m", "l" >>, Obj(YmlBase)),
      YmlFile(<< "a", ".", "b", ".", "y", "m", "l" >>, Obj(YmlBase)),
      YmlFile(<< ".", "y", "m", "l" >>, Obj(YmlBase)),
      YmlMalformed(<< "b", ".", "y", "m", "l" >>) }

LocalHtmlPool ==
    { HtmlFile(<< "a", ".", "h", "t", "m", "l" >>, "invalid", Null, MicrodataDoc),
      HtmlUnreadable(<< "b", ".", "h", "t", "m", "l" >>) }

\* a run of the CLI over recipes without a remote image
InitLocal ==
    /\ call = "cli"
    /\ arg \in Commands
    /\ options = Undef
    /\ recipesDir \in [ HTML : Dirs(LocalHtmlPool), YML : Dirs(LocalYmlPool) ]
    /\ Idle

NextLocal ==
    \/ CLI
    \/ ConvertHTMLFilesBegin
    \/ HTMLLoop
    \/ HTMLWrite
    \/ ConvertYMLFilesBegin
    \/ YMLLoop
    \/ YMLWrite
    \/ ConvertAllFinish
    \/ ArchiveClose
    \/ ImagesStep

SpecLocal == InitLocal /\ [][NextLocal]_vars

\* the files of the runs that download: two flat-format recipes with a
\* remote image each, and a markup recipe with two remote images
FetchYmlPool ==
    { YmlFile(<< "a", ".", "y", "m", "l" >>, Obj([ YmlBase EXCEPT !.image = Str(UrlA) ])),
      YmlFile(<< "d", ".", "y", "m", "l" >>, Obj([ YmlBase EXCEPT !.image = Str(UrlB) ])) }

FetchHtmlPool ==
    { HtmlFile(<< "a", ".", "h", "t", "m", "l" >>, "valid",
               Obj([ SdBase EXCEPT !.image = Arr(<< Str(UrlA), Str(UrlB) >>) ]),
               EmptyDoc) }

\* a run of the CLI over recipes with remote images
InitFetch ==
    /\ call = "cli"
    /\ arg \in Commands
    /\ options = Undef
    /\ recipesDir \in [ HTML : Dirs(FetchHtmlPool), YML : Dirs(FetchYmlPool) ]
    /\ Idle

SpecFetch == InitFetch /\ [][Next]_vars

(***************************************************************************)
(* Properties.                                                              *)
(***************************************************************************)
ParserCalls == { "parseYMLRecipe", "parseHTMLRecipe" }

\* a direct call of a parser has returned a recipe
ParserReturned == call \in ParserCalls /\ pc = "returned" /\ result # Null

\* the title the parser read from its source, before casing
SourceTitle ==
    IF call = "parseYMLRecipe" THEN Or(Get(arg.data, "name"), Str(<< >>))
    ELSE extractTitle(StructuredData(arg), arg.doc)

\* every word of s, delimited by white space or a hyphen, starts with a
\* capital when it starts with a letter
IsTitleCase(s) ==
    \A i \in DOMAIN s :
        (i = 1 \/ IsSpace(s[i - 1]) \/ s[i - 1] = "-") => ~IsLower(s[i])

ProperOption == Obj([ titleCaseMode |-> Str(<< "p", "r", "o", "p", "e", "r" >>) ])

\* C8: with the default configuration the title of every record is in title
\* case (every whitespace/hyphen-delimited word starts with a capital); only
\* a converter constructed with {titleCaseMode: 'proper'} applies
\* toProperCase to the whole title.
C8_TitleCaseByDefault ==
    ParserReturned =>
        IF options = ProperOption
        THEN result.title = toProperCase(SourceTitle)
        ELSE IsTitleCase(result.title.s)

\* the text expected for the minute count m, case by case
HM(m) ==
    IF m = 0 THEN << >>
    ELSE IF m < 60 THEN ToStr(m) \o << "m" >>
    ELSE IF m % 60 = 0 THEN ToStr(m \div 60) \o << "h" >>
    ELSE ToStr(m \div 60) \o << "h", " " >> \o ToStr(m % 60) \o << "m" >>

\* C9: formatMinutesToHM(m) for a non-negative integer m is "" when m = 0,
\* "<m>m" when 0 < m < 60, "<h>h" when m >= 60 and m mod 60 = 0, and
\* "<h>h <r>m" otherwise, with h = m div 60 and r = m mod 60; so 45 -> "45m",
\* 60 -> "1h", 90 -> "1h 30m".
C9_FormatMinutes ==
    (call = "formatMinutesToHM" /\ pc = "returned") =>
        /\ result = Str(HM(arg))
        /\ arg = 0 => result.s = << >>
        /\ arg = 45 => result.s = << "4", "5", "m" >>
        /\ arg = 60 => result.s = << "1", "h" >>
        /\ arg = 90 => result.s = << "1", "h", " ", "3", "0", "m" >>

\* formatMinutesToHM has returned for a count with hours and minutes
C9_Witness ==
    /\ call = "formatMinutesToHM"
    /\ pc = "returned"
    /\ arg = 90
    /\ result.s = << "1", "h", " ", "3", "0", "m" >>

StringFields == { "title", "text", "yield", "prepTime", "cookTime", "totalTime",
                  "ingredients", "instructions", "notes", "nutrition", "link" }

ListFields == { "images", "categories" }

BooleanFields == { "favorite", "wantToCook" }

\* r has every field of the CanonicalRecipe schema, with its declared type
ConformsToSchema(r) ==
    /\ StringFields \cup ListFields \cup BooleanFields \cup { "id", "date" }
           \subseteq DOMAIN r
    /\ r.id.t = "string"
    /\ \A f \in StringFields : r[f].t = "string"
    /\ \A f \in ListFields :
           /\ r[f].t = "array"
           /\ \A i \in DOMAIN r[f].l : r[f].l[i].t = "string"
    /\ \A f \in BooleanFields : r[f].t = "boolean"
    /\ r.date.t = "number"

\* the fields of a flat-format record whose source key is absent have their
\* empty value
DefaultsWhenAbsent(r, data) ==
    /\ Get(data, "notes") = Undef => r.text = Str(<< >>) /\ r.notes = Str(<< >>)
    /\ Get(data, "servings") = Undef => r.yield = Str(<< >>)
    /\ Get(data, "nutritional_info") = Undef => r.nutrition = Str(<< >>)
    /\ Get(data, "source") = Undef => r.link = Str(<< >>)
    /\ Get(data, "image") = Undef => r.images = Arr(<< >>)
    /\ Get(data, "tags") = Undef => r.categories = Arr(<< >>)
    /\ (Get(data, "favorite") = Undef /\ Get(data, "on_favorites") = Undef)
           => r.favorite = Bool(FALSE)

\* C10: every record parseHTMLRecipe or parseYMLRecipe returns has every
\* field of the CanonicalRecipe schema, never null and of its declared type
\* (strings, lists of strings for images and categories, booleans for
\* favorite and wantToCook, a number for date), and a field without a source
\* value is the empty string, the empty list or false.
C10_SchemaConformance ==
    ParserReturned =>
        /\ ConformsToSchema(result)
        /\ call = "parseYMLRecipe" => DefaultsWhenAbsent(result, arg.data)

HasPrefix(s, p) == Len(s) >= Len(p) /\ SubSeq(s, 1, Len(p)) = p

\* v is a string that starts with http:// or https://
IsRemote(v) ==
    /\ v.t = "string"
    /\ (HasPrefix(v.s, << "h", "t", "t", "p", ":", "/", "/" >>) \/ HasPrefix(v.s, << "h", "t", "t", "p", "s", ":", "/", "/" >>))

\* a call of convertImagesToBase64 made directly is running or has returned
ImagesCalled == call = "convertImagesToBase64" /\ images.ret # "none"

\* the downloads that resolved to a value, in the order they were made
Materialized == SelectSeq(images.got, LAMBDA g : g.value # Null)

DownloadLines == SelectSeq(log, LAMBDA l : l.what = "download")

B64Chars == { B64Alphabet[k] : k \in DOMAIN B64Alphabet }

B64Value(c) == CHOOSE n \in 0 .. 63 : B64Alphabet[n + 1] = c

\* p is a base64 text: groups of four, padded with = in the last group only
IsB64(p) ==
    /\ Len(p) % 4 = 0
    /\ \A k \in DOMAIN p :
           \/ p[k] \in B64Chars
           \/ p[k] = "=" /\ k >= Len(p) - 1 /\ (k = Len(p) \/ p[Len(p)] = "=")

\* the bytes a base64 text stands for
RECURSIVE B64Decode(_)
B64Decode(p) ==
    IF Len(p) < 4 THEN << >>
    ELSE LET a == B64Value(p[1])
             b == B64Value(p[2])
             first == << a * 4 + b \div 16 >>
             rest == IF p[3] = "=" THEN << >>
                     ELSE LET c == B64Value(p[3])
                          IN  << (b % 16) * 16 + c \div 4 >>
                                  \o (IF p[4] = "=" THEN << >>
                                      ELSE << (c % 4) * 64 + B64Value(p[4]) >>)
         IN  first \o rest \o B64Decode(SubSeq(p, 5, Len(p)))

\* s with every backslash that precedes a slash taken out
RECURSIVE WithoutEscapes(_)
WithoutEscapes(s) ==
    IF s = << >> THEN << >>
    ELSE IF Len(s) >= 2 /\ s[1] = "\\" /\ s[2] = "/"
         THEN << "/" >> \o WithoutEscapes(SubSeq(s, 3, Len(s)))
    ELSE << Head(s) >> \o WithoutEscapes(Tail(s))

\* every slash of s has a backslash before it
SlashesEscaped(s) == \A k \in DOMAIN s : s[k] = "/" => (k > 1 /\ s[k - 1] = "\\")

\* image/ followed by letters, digits, ".", "+" or "-" only
IsPlainImageType(ct) ==
    /\ HasPrefix(ct, << "i", "m", "a", "g", "e", "/" >>)
    /\ Len(ct) > 6
    /\ \A k \in 7 .. Len(ct) : IsAlnum(ct[k]) \/ ct[k] \in { ".", "+", "-" }

\* the await of convertImagesToBase64 resumes with the value of a download
\* whose final response was a 200 with an image content type and whose body
\* has ended
ImageMaterialized ==
    /\ pc = "await"
    /\ pc' = "images"
    /\ req.phase = "ended"
    /\ req.response.statusCode = 200
    /\ HasPrefix(req.response.contentType.s, << "i", "m", "a", "g", "e", "/" >>)

ContentTypeTag == DataPrefix \o req.contentType \o Base64Marker

\* C5 as stated: the entry put in the output sequence for a 200 response with
\* an image content type is an inline payload tagged with the observed
\* content type followed by the base64 encoding of the full response body.
C5_TaggedInlinePayload ==
    [][ImageMaterialized =>
           LET entry == images'.out[Len(images'.out)]
               payload == SubSeq(entry, Len(ContentTypeTag) + 1, Len(entry))
           IN  /\ Len(images'.out) = Len(images.out) + 1
               /\ HasPrefix(entry, ContentTypeTag)
               /\ IsB64(payload)
               /\ B64Decode(payload) = Concat(req.chunks)]_vars

\* C5 amended: the entry put in the output sequence has every "/" written as
\* "\/"; read without those backslashes it is the base64 encoding of the full
\* response body, with no content-type tag, when the content type is image/
\* followed only by letters, digits, ".", "+" or "-", and otherwise (a
\* content type with a parameter) the data URL data:<type>;base64,<base64>.
C5_EscapedBarePayload ==
    [][ImageMaterialized =>
           LET entry == images'.out[Len(images'.out)]
               plain == WithoutEscapes(entry)
               payload == IF IsPlainImageType(req.contentType) THEN plain
                          ELSE SubSeq(plain, Len(ContentTypeTag) + 1, Len(plain))
           IN  /\ Len(images'.out) = Len(images.out) + 1
               /\ SlashesEscaped(entry)
               /\ ~IsPlainImageType(req.contentType) => HasPrefix(plain, ContentTypeTag)
               /\ IsB64(payload)
               /\ B64Decode(payload) = Concat(req.chunks)]_vars

\* the value of an image/png download of the single byte 255, whose base64
\* text has a slash, has been put in the output sequence
C5_Witness ==
    /\ pc = "images"
    /\ images.got # << >>
    /\ images.got[Len(images.got)].value = Str(<< "d", "a", "t", "a", ":", "i", "m", "a", "g", "e", "/", "p", "n", "g", ";", "b", "a", "s", "e", "6", "4", ",", "/", "w", "=", "=" >>)
    /\ images.out # << >>
    /\ images.out[Len(images.out)] = << "\\", "/", "w", "=", "=" >>

\* C6: downloadImageAsBase64 follows a 3xx response with a location header
\* for at most 5 hops: the redirect count is the number of requests made
\* after the first, one image causes at most 6 requests, a redirect received
\* after 5 hops resolves to no value, and a chain of at most 5 redirects that
\* ends in a 200 image response whose body ends resolves to that image.
C6_RedirectBound ==
    /\ requests <= 6
    /\ req.phase # "none" =>
           /\ req.redirectCount = requests - 1
           /\ req.redirectCount <= 5
    /\ (req.phase = "dropped" /\ IsRedirect(req.response)) =>
           /\ req.redirectCount = 5
           /\ requests = 6
           /\ promise = Settle("fulfilled", Null)
    /\ req.phase = "ended" =>
           /\ req.redirectCount <= 5
           /\ promise.state = "fulfilled"
           /\ promise.value.t = "string"
           /\ HasPrefix(promise.value.s, DataPrefix \o req.contentType \o Base64Marker)

\* the sixth redirect of a chain has been answered by dropping the image
C6_Witness ==
    /\ req.phase = "dropped"
    /\ IsRedirect(req.response)
    /\ req.redirectCount = 5
    /\ requests = 6
    /\ promise = Settle("fulfilled", Null)

\* the files of the listing of dir that end in ext
Listed(dir, ext) ==
    IF dir.exists THEN SelectSeq(dir.files, LAMBDA f : endsWith(f.name, ext))
    ELSE << >>

\* the files of the listing a batch method converts, and those it cannot parse
WellFormed(dir, ext) ==
    SelectSeq(Listed(dir, ext),
              LAMBDA f : IF ext = HtmlExt THEN ~parseHTMLRecipeThrows(f)
                         ELSE ~parseYMLRecipeThrows(f))

Malformed(dir, ext) ==
    SelectSeq(Listed(dir, ext),
              LAMBDA f : IF ext = HtmlExt THEN parseHTMLRecipeThrows(f)
                         ELSE parseYMLRecipeThrows(f))

\* the name of the per-record document of a file
DocName(f) == generateId(f.name, Uuid).s \o << ".", "m", "e", "l", "a", "r", "e", "c", "i", "p", "e" >>

DocNames(fs) == [ k \in DOMAIN fs |-> DocName(fs[k]) ]

\* the files the running mode has to convert
ModeFiles ==
    IF arg = "html" THEN WellFormed(recipesDir.HTML, HtmlExt)
    ELSE IF arg = "yml" THEN WellFormed(recipesDir.YML, YmlExt)
    ELSE WellFormed(recipesDir.HTML, HtmlExt) \o WellFormed(recipesDir.YML, YmlExt)

ModeMalformed ==
    IF arg = "html" THEN Malformed(recipesDir.HTML, HtmlExt)
    ELSE IF arg = "yml" THEN Malformed(recipesDir.YML, YmlExt)
    ELSE Malformed(recipesDir.HTML, HtmlExt) \o Malformed(recipesDir.YML, YmlExt)

\* no image download of the run has rejected so far (C7 is about those)
NoRejectedDownload == promise.state # "rejected"

\* C1: a batch run of convertHTMLFiles or of convertYMLFiles over a listing
\* that mixes well-formed and malformed files completes without throwing;
\* when it is over, every well-formed file has exactly one record in the
\* returned list and one written document, in the order of the listing, and
\* every malformed file has been logged and skipped.
C1_PerFileIsolation ==
    (call = "cli" /\ arg \in { "html", "yml" } /\ NoRejectedDownload) =>
        /\ pc # "exit"
        /\ pc = "done" =>
               /\ [ k \in DOMAIN convertedRecipes |-> melaName(convertedRecipes[k]) ]
                      = DocNames(ModeFiles)
               /\ \A k \in DOMAIN ModeFiles : DocName(ModeFiles[k]) \in DOMAIN outputDir
               /\ \A k \in DOMAIN ModeMalformed :
                      \E n \in DOMAIN log :
                          log[n] = Line("error", "file", ModeMalformed[k].name)

\* C2: in every CLI mode, a run over at least one convertible file ends with
\* one document <id>.melarecipe per converted record and with a combined
\* container recipes.melarecipes whose entries are exactly the records
\* converted in the run (for all: the HTML and the YML records).
C2_DocumentsAndContainer ==
    (call = "cli" /\ pc \in { "done", "exit" } /\ NoRejectedDownload
         /\ ModeFiles # << >>) =>
        /\ pc = "done"
        /\ \A k \in DOMAIN ModeFiles : DocName(ModeFiles[k]) \in DOMAIN outputDir
        /\ writers # << >>
        /\ LET entries == writers[Len(writers)].entries
           IN  [ k \in DOMAIN entries |-> entries[k].name ] = DocNames(ModeFiles)

\* C3: every entry <id>.melarecipe of the combined container is the same
\* serialized document as the per-record file <id>.melarecipe.
C3_ContainerEntryIsTheFile ==
    \A w \in DOMAIN writers :
        \A k \in DOMAIN writers[w].entries :
            LET entry == writers[w].entries[k]
            IN  /\ entry.name \in DOMAIN outputDir
                /\ outputDir[entry.name] = entry.content

\* C7: an image download that fails, in whatever way, drops only that image:
\* a YML batch is never aborted by it, and on the HTML path the record of a
\* file that parses is still there after its images were handled.
C7_ImageFailureDropsOnlyTheImage ==
    call = "cli" =>
        /\ arg = "yml" => pc # "exit"
        /\ (pc = "htmlRecipe" /\ ~parseHTMLRecipeThrows(files[fileIdx]))
               => recipe # Null

\* the ids of a list of records are non-empty strings, each held once
DistinctIds(recipes) ==
    /\ \A k \in DOMAIN recipes :
           recipes[k].id.t = "string" /\ recipes[k].id.s # << >>
    /\ \A i, j \in DOMAIN recipes : i # j => recipes[i].id # recipes[j].id

\* what the running method has to return so far: convertedRecipes, and for
\* convertAll the HTML records before them
ReturnedSoFar == htmlRecipes \o convertedRecipes

FetchStarts == pc = "images" /\ pc' = "await"

\* a step by which a batch method takes the next file of its listing
FileStarts ==
    /\ pc \in { "htmlLoop", "ymlLoop" }
    /\ fileIdx <= Len(files)
    /\ log' # log

\* the entries of the list before position i that are remote URLs
RemoteBefore(list, i) == { j \in DOMAIN list : j < i /\ IsRemote(list[j]) }

\* C12: during a batch run at most one image fetch is in flight: the main
\* routine stands at its await for as long as a fetch is unsettled, the
\* fetch of an image starts only when the fetches of all earlier images of
\* the record have settled and their requests are over, and the next file is
\* taken only when no fetch is unsettled, convertImagesToBase64 has been
\* left and, on the YML path, the document of the file before has been
\* written.
C12_OneFetchInFlight ==
    [][/\ promise'.state = "pending" => pc' = "await"
       /\ req'.phase \in { "sent", "body" } => promise'.state = "pending"
       /\ FetchStarts =>
              /\ promise.state # "pending"
              /\ req.phase = "none"
              /\ requests = 0
              /\ requests' <= 1
              /\ Len(images.got) = Cardinality(RemoteBefore(images.list, images.i))
       /\ FileStarts =>
              /\ promise.state # "pending"
              /\ req.phase = "none"
              /\ images = NoFrame
              /\ (pc = "ymlLoop" /\ fileIdx > 1
                      /\ ~parseYMLRecipeThrows(files[fileIdx - 1]))
                     => DocName(files[fileIdx - 1]) \in DOMAIN outputDir]_vars

\* the fetch of the second image of a record is in flight, the fetch of the
\* first having settled with a payload
C12_Witness ==
    /\ call = "cli"
    /\ pc = "await"
    /\ promise.state = "pending"
    /\ req.phase = "sent"
    /\ images.i = 2
    /\ Len(images.got) = 1
    /\ images.got[1].value # Null

\* the archive writers that have not closed recipes.melarecipes yet
OpenWriters == { w \in DOMAIN writers : writers[w].state = "open" }

\* C13: in a convertAll run no two archive writers are open on
\* recipes.melarecipes at a time: a writer is started on that path only
\* after every earlier one has closed.
C13_OneArchiveWriter ==
    (call = "cli" /\ arg \in { "all", "none" }) => Cardinality(OpenWriters) <= 1

\* C14: every call of downloadImageAsBase64 settles, under every sequence of
\* network events: as long as its promise is pending, an event that the
\* code handles can still arrive, so the await of convertImagesToBase64 is
\* never left waiting for good.
C14_FetchSettles ==
    (pc = "await" /\ promise.state = "pending") => ENABLED Network

\* the ways of writing a hours and b minutes as PT<a>H<b>M, a part that is 0
\* possibly absent
DurationTexts(a, b) ==
    { << "P", "T" >> \o ToStr(a) \o << "H" >> \o ToStr(b) \o << "M" >> }
    \cup (IF b = 0 THEN { << "P", "T" >> \o ToStr(a) \o << "H" >> } ELSE { })
    \cup (IF a = 0 THEN { << "P", "T" >> \o ToStr(b) \o << "M" >> } ELSE { })

\* v is a string of the form PT<a>H<b>M
IsDuration(v) ==
    IsStr(v) /\ \E a \in 0 .. 3, b \in 0 .. 59 : v.s \in DurationTexts(a, b)

\* the minutes 60a + b that the duration v stands for
DurationMinutes(v) ==
    LET ab == CHOOSE ab \in (0 .. 3) \X (0 .. 59) : v.s \in DurationTexts(ab[1], ab[2])
    IN  60 * ab[1] + ab[2]

\* C15: for an HTML record whose structured data gives prepTime PT<a>H<b>M
\* and cookTime PT<c>H<d>M, prepTime is the formatting of 60a+b minutes,
\* cookTime the formatting of 60c+d minutes and totalTime the formatting of
\* their sum.
C15_TimesFromDurations ==
    (/\ call = "parseHTMLRecipe"
     /\ ParserReturned
     /\ StructuredData(arg).t = "object"
     /\ IsDuration(Get(StructuredData(arg), "prepTime"))
     /\ IsDuration(Get(StructuredData(arg), "cookTime")))
    => LET prep == DurationMinutes(Get(StructuredData(arg), "prepTime"))
           cook == DurationMinutes(Get(StructuredData(arg), "cookTime"))
       IN  /\ result.prepTime = Str(HM(prep))
           /\ result.cookTime = Str(HM(cook))
           /\ result.totalTime = Str(HM(prep + cook))

====
